---- MODULE Spec2Model ----
(***************************************************************************)
(* A model of the shopkeeper inventory / order-taking program:             *)
(*   src/src/domain.rs  Store, stock, stock_new, adjust_stock,             *)
(*                      commit_order, push_order                           *)
(*   src/src/ui.rs      build_order (the interactive reservation loop)     *)
(*   src/src/main.rs    the single-file revision of the same Store and of  *)
(*                      build_order (its finish branch does not sort)      *)
(*                                                                         *)
(* Machine integers.  TLC's integers are 32 bits wide, so the program's    *)
(* u32 / i32 are modelled as WordBits-bit words and its u64 / i64 as       *)
(* 2*WordBits-bit words; every cast, truncation and overflow of the code   *)
(* is kept, at that scale.  Arithmetic overflow of +, - and unary minus    *)
(* panics when the build has overflow checks (debug profile) and wraps     *)
(* when it has not (release profile): overflow_checks is fixed in Init.    *)
(*                                                                         *)
(* Item.name is free text that no operation reads; it is left out of the   *)
(* inventory entries.                                                      *)
(***************************************************************************)
EXTENDS Integers, Sequences, FiniteSets, TLC

\* ------------------------------------------------------------------ bounds
WordBits == 3         \* width of the modelled u32 / i32
MaxLines == 2         \* longest line list handed to commit_order
MaxOrders == 2        \* most orders committed / pushed in one behaviour
MaxNew == 3           \* most stock_new calls in one behaviour
MaxSel == 3           \* most successful selections in one build_order session

\* ------------------------------------------------------------ machine words
U32Mod == 2^WordBits
U32Max == U32Mod - 1
I32Min == -(2^(WordBits - 1))
I32Max == 2^(WordBits - 1) - 1
U64Mod == U32Mod * U32Mod
U32 == 0..U32Max
I32 == I32Min..I32Max

\* `x as u32` of a non-negative i64 / u64: keeps the low word
AsU32(n) == n % U32Mod

\* `x as i32` of a u32: reinterprets the word as two's complement
AsI32(q) == IF q > I32Max THEN q - U32Mod ELSE q

\* unary minus on an i32: overflows exactly on i32::MIN, where the wrapped
\* result is i32::MIN again
NegOverflows(i) == i = I32Min
WrappingNeg(i) == IF i = I32Min THEN I32Min ELSE -i

\* the item ids the callers of this model supply; those of OtherIds are
\* never stocked through Store::stock
ItemIds == {1, 2}
OtherIds == {3}
NoOrder == [id |-> 0, cost |-> 0, ship_weight |-> 0, items |-> <<>>]

VARIABLES
  inventory,        \* Store.inventory: item id -> [cost, weight, qty]
  orders,           \* Store.orders
  next_item_id,     \* Store.next_item_id
  next_order_id,    \* Store.next_order_id
  pc,               \* "Store": the store's API is being called directly;
                    \* "Selecting" / "Qty": build_order waits at a prompt;
                    \* "Finalized" / "Cancelled" / "IoError": build_order
                    \* has returned; "Panicked": the process has panicked
  order_qty,        \* build_order's local reservation map
  item_id_sel,      \* build_order's local item_id while at the Qty prompt
  lines,            \* the line set build_order returned (<<>> if none)
  overflow_checks,  \* TRUE: overflow panics; FALSE: overflow wraps
  pre_inventory,    \* history: the inventory when the session started
  reserved,         \* history: per item, the sum (over the integers) of the
                    \* quantities typed in the session's successful selections
  nsel,             \* history: the number of successful selections
  issued,           \* history: the ids stock_new has returned, in order
  committed,        \* history: the ids of the Orders commit_order has
                    \* returned, in order
  last              \* history: the last call, its arguments and its result

vars == <<inventory, orders, next_item_id, next_order_id, pc, order_qty,
          item_id_sel, lines, overflow_checks, pre_inventory, reserved, nsel,
          issued, committed, last>>

store_vars == <<inventory, orders, next_item_id, next_order_id>>
session_vars ==
  <<order_qty, item_id_sel, lines, pre_inventory, reserved, nsel>>

Call(op, id, arg, before, err, val, order) ==
  [op |-> op, id |-> id, arg |-> arg, before |-> before, err |-> err,
   val |-> val, order |-> order]

NoCall == Call("new", 0, 0, 0, "", 0, NoOrder)

\* ---------------------------------------------------------- Store::adjust_stock
\* A faulty variant: the guard `new_qty < 0` is gone (the NOTE in main.rs:116
\* considers resetting to zero instead of failing).
AdjustStock_NoGuard(inv, item_id, qty_change) ==
  IF item_id \notin DOMAIN inv
  THEN [err |-> "Unknown id", val |-> 0, inv |-> inv]
  ELSE LET new_qty == inv[item_id].qty + qty_change
           stored == IF new_qty < 0 THEN 0 ELSE AsU32(new_qty)
       IN [err |-> IF new_qty < 0 THEN "Not enough stock" ELSE "",
           val |-> stored,
           inv |-> [inv EXCEPT ![item_id].qty = stored]]

\* A faulty variant: the lookup is inventory.entry(item_id).or_insert(..), so
\* an unknown id gets an empty entry before the error is returned.
AdjustStock_InsertsUnknown(inv, item_id, qty_change) ==
  IF item_id \notin DOMAIN inv
  THEN [err |-> "Unknown id", val |-> 0,
        inv |-> [k \in DOMAIN inv \cup {item_id} |->
                   IF k = item_id THEN [cost |-> 0, weight |-> 0, qty |-> 0]
                   ELSE inv[k]]]
  ELSE LET new_qty == inv[item_id].qty + qty_change
       IN IF new_qty < 0
          THEN [err |-> "Not enough stock", val |-> 0, inv |-> inv]
          ELSE [err |-> "", val |-> AsU32(new_qty),
                inv |-> [inv EXCEPT ![item_id].qty = AsU32(new_qty)]]

\* adjust_stock as a function of the inventory: the error ("" for Ok), the
\* returned quantity and the inventory afterwards.  new_qty is an i64: the
\* sum of a u32 and an i32 cannot overflow it.
AdjustStock(inv, item_id, qty_change) ==
  IF item_id \notin DOMAIN inv
  THEN [err |-> "Unknown id", val |-> 0, inv |-> inv]
  ELSE LET new_qty == inv[item_id].qty + qty_change
       IN IF new_qty < 0
          THEN [err |-> "Not enough stock", val |-> 0, inv |-> inv]
          ELSE [err |-> "", val |-> AsU32(new_qty),
                inv |-> [inv EXCEPT ![item_id].qty = AsU32(new_qty)]]

QtyOf(inv, item_id) == IF item_id \in DOMAIN inv THEN inv[item_id].qty ELSE 0

\* a direct call of Store::adjust_stock
adjust_stock(item_id, qty_change) ==
  /\ pc = "Store"
  /\ LET r == AdjustStock(inventory, item_id, qty_change)
     IN /\ inventory' = r.inv
        /\ last' = Call("adjust_stock", item_id, qty_change,
                        QtyOf(inventory, item_id), r.err, r.val, NoOrder)
  /\ UNCHANGED <<orders, next_item_id, next_order_id, pc, overflow_checks,
                 issued, committed>>
  /\ UNCHANGED session_vars

\* ------------------------------------------------- inventories to start from
Entry(cost, weight, qty) == [cost |-> cost, weight |-> weight, qty |-> qty]

\* every inventory over the ids in S with the given costs, weights, quantities
Inventories(S, Costs, Weights, Qtys) ==
  [S -> {Entry(c, w, q) : c \in Costs, w \in Weights, q \in Qtys}]

NoSession ==
  /\ order_qty = <<>>
  /\ item_id_sel = 0
  /\ lines = <<>>
  /\ reserved = [i \in ItemIds |-> 0]
  /\ nsel = 0
  /\ issued = <<>>
  /\ committed = <<>>
  /\ last = NoCall

\* A store whose items were stocked through Store::stock (which leaves the
\* id counters alone), about to be driven through adjust_stock.
InitAdjust ==
  /\ inventory \in Inventories(ItemIds, {1}, {1}, U32)
  /\ pre_inventory = <<>>
  /\ orders = <<>>
  /\ next_item_id = 1
  /\ next_order_id = 1
  /\ pc = "Store"
  /\ overflow_checks \in BOOLEAN
  /\ NoSession

NextAdjust ==
  \E item_id \in ItemIds \cup OtherIds, qty_change \in I32 :
    adjust_stock(item_id, qty_change)

SpecAdjust == InitAdjust /\ [][NextAdjust]_vars

\* ------------------------------------------------------------- build_order
RECURSIVE SortedSeq(_)
SortedSeq(S) ==
  IF S = {} THEN <<>>
  ELSE LET m == CHOOSE x \in S : \A y \in S : x <= y
       IN <<m>> \o SortedSeq(S \ {m})

\* Store::inventory_ids_sorted: the keys, ascending
inventory_ids_sorted(inv) == SortedSeq(DOMAIN inv)

\* every order in which a HashMap holding the keys S may iterate
IterationOrders(S) ==
  {s \in [1..Cardinality(S) -> S] : \A i, j \in DOMAIN s : s[i] = s[j] => i = j}

\* A faulty variant: the two u32 fields of the OrderLine are swapped.
CollectLines_FieldsSwapped(oq, ids) ==
  [k \in 1..Len(ids) |-> [item_id |-> oq[ids[k]], qty |-> ids[k]]]

\* .map(|(item_id, qty)| OrderLine { item_id, qty }).collect() over the map
\* iterated in the order ids
CollectLines(oq, ids) ==
  [k \in 1..Len(ids) |-> [item_id |-> ids[k], qty |-> oq[ids[k]]]]

\* order_qty.is_empty() of the finish branch
FinishRejected_Never(oq) == FALSE

FinishRejected(oq) == DOMAIN oq = {}

\* the lines the finish branch of ui.rs returns: collected, then
\* sort_by_key(item_id); the keys are distinct, so the result is the
\* ascending one whatever the iteration order was
FinishLines(oq) == CollectLines(oq, SortedSeq(DOMAIN oq))

\* the quit branch: adjust_stock(item_id, qty as i32) for each entry of the
\* map, its result dropped (`let _ =`).  Each call touches its own item only,
\* so the iteration order does not show in the result.
RECURSIVE Rollback(_, _, _)
Rollback(inv, oq, S) ==
  IF S = {} THEN inv
  ELSE LET i == CHOOSE x \in S : TRUE
       IN Rollback(AdjustStock(inv, i, AsI32(oq[i])).inv, oq, S \ {i})

\* A faulty variant: the selection is recorded in the map although adjust_stock
\* failed.
Select_RecordsOnError(inv, oq, item_id, qty, checks) ==
  LET i == AsI32(qty)
      old == IF item_id \in DOMAIN oq THEN oq[item_id] ELSE 0
      r == AdjustStock(inv, item_id, WrappingNeg(i))
  IN [panic |-> "", err |-> r.err, inv |-> r.inv,
      oq |-> [k \in DOMAIN oq \cup {item_id} |->
                IF k = item_id THEN AsU32(old + qty) ELSE oq[k]]]

\* The selection branch once the quantity is read:
\*   store.adjust_stock(item_id, -(qty as i32)), and on Ok
\*   *order_qty.entry(item_id).or_insert(0) += qty.
\* panic: the overflow that stopped the process ("" if none); err: the
\* message of the adjust_stock failure ("" if none); inv, oq: the inventory
\* and the reservation map afterwards.  A panic of `+=` comes after
\* adjust_stock has changed the inventory.
Select(inv, oq, item_id, qty, checks) ==
  LET i == AsI32(qty)
      old == IF item_id \in DOMAIN oq THEN oq[item_id] ELSE 0
      r == AdjustStock(inv, item_id, WrappingNeg(i))
  IN IF NegOverflows(i) /\ checks
     THEN [panic |-> "attempt to negate with overflow", err |-> "",
           inv |-> inv, oq |-> oq]
     ELSE IF r.err # ""
     THEN [panic |-> "", err |-> r.err, inv |-> inv, oq |-> oq]
     ELSE IF old + qty > U32Max /\ checks
     THEN [panic |-> "attempt to add with overflow", err |-> "",
           inv |-> r.inv, oq |-> oq]
     ELSE [panic |-> "", err |-> "", inv |-> r.inv,
           oq |-> [k \in DOMAIN oq \cup {item_id} |->
                     IF k = item_id THEN AsU32(old + qty) ELSE oq[k]]]

Said(op, id, arg, err) == Call(op, id, arg, 0, err, 0, NoOrder)

\* the command prompt cannot be read: read_str's error leaves through `?`
build_order_io_error ==
  /\ pc \in {"Selecting", "Qty"}
  /\ pc' = "IoError"
  /\ last' = Said("io", 0, 0, "io error")
  /\ UNCHANGED store_vars
  /\ UNCHANGED session_vars
  /\ UNCHANGED <<overflow_checks, issued, committed>>

\* "f" with an empty map: a diagnostic, then `continue`
build_order_finish_rejected ==
  /\ pc = "Selecting"
  /\ FinishRejected(order_qty)
  /\ last' = Said("f", 0, 0, "Unable to complete order")
  /\ UNCHANGED store_vars
  /\ UNCHANGED session_vars
  /\ UNCHANGED <<pc, overflow_checks, issued, committed>>

\* "f" in ui.rs: the lines, sorted by item id, are returned
build_order_finish ==
  /\ pc = "Selecting"
  /\ ~FinishRejected(order_qty)
  /\ lines' = FinishLines(order_qty)
  /\ pc' = "Finalized"
  /\ last' = Said("f", 0, 0, "")
  /\ UNCHANGED store_vars
  /\ UNCHANGED <<order_qty, item_id_sel, pre_inventory, reserved, nsel,
                 overflow_checks, issued, committed>>

\* "f" in main.rs: the lines are returned in the map's iteration order
build_order_finish_unsorted ==
  /\ pc = "Selecting"
  /\ ~FinishRejected(order_qty)
  /\ \E ids \in IterationOrders(DOMAIN order_qty) :
       lines' = CollectLines(order_qty, ids)
  /\ pc' = "Finalized"
  /\ last' = Said("f", 0, 0, "")
  /\ UNCHANGED store_vars
  /\ UNCHANGED <<order_qty, item_id_sel, pre_inventory, reserved, nsel,
                 overflow_checks, issued, committed>>

\* A faulty variant: the quit branch gives the reservations back and then
\* goes round the loop again instead of returning.
build_order_quit_continues ==
  /\ pc = "Selecting"
  /\ inventory' = Rollback(inventory, order_qty, DOMAIN order_qty)
  /\ last' = Said("q", 0, 0, "")
  /\ UNCHANGED <<orders, next_item_id, next_order_id, pc>>
  /\ UNCHANGED session_vars
  /\ UNCHANGED <<overflow_checks, issued, committed>>

\* "q": the reservations are given back, then None is returned
build_order_quit ==
  /\ pc = "Selecting"
  /\ inventory' = Rollback(inventory, order_qty, DOMAIN order_qty)
  /\ pc' = "Cancelled"
  /\ last' = Said("q", 0, 0, "")
  /\ UNCHANGED <<orders, next_item_id, next_order_id>>
  /\ UNCHANGED session_vars
  /\ UNCHANGED <<overflow_checks, issued, committed>>

\* a command that is neither "f", "q" nor a usize
build_order_not_a_row ==
  /\ pc = "Selecting"
  /\ last' = Said("row", 0, 0, "Enter a row number")
  /\ UNCHANGED store_vars
  /\ UNCHANGED session_vars
  /\ UNCHANGED <<pc, overflow_checks, issued, committed>>

\* a row number: out of range, or the Qty prompt for ids[row]
build_order_row(row) ==
  /\ pc = "Selecting"
  /\ LET ids == inventory_ids_sorted(inventory)
     IN IF row >= Len(ids)
        THEN /\ last' = Said("row", 0, 0, "Row out of range")
             /\ UNCHANGED <<pc, item_id_sel>>
        ELSE /\ item_id_sel' = ids[row + 1]
             /\ pc' = "Qty"
             /\ last' = Said("row", ids[row + 1], 0, "")
  /\ UNCHANGED store_vars
  /\ UNCHANGED <<order_qty, lines, pre_inventory, reserved, nsel,
                 overflow_checks, issued, committed>>

\* retry_read_u32 at the Qty prompt: a line that is no u32 (or, in main.rs,
\* a timeout) is reported and the prompt is shown again
build_order_qty_retry ==
  /\ pc = "Qty"
  /\ last' = Said("qty", item_id_sel, 0, "Invalid input, try again")
  /\ UNCHANGED store_vars
  /\ UNCHANGED session_vars
  /\ UNCHANGED <<pc, overflow_checks, issued, committed>>

\* a u32 typed at the Qty prompt
build_order_qty(qty) ==
  /\ pc = "Qty"
  /\ LET r == Select(inventory, order_qty, item_id_sel, qty, overflow_checks)
         ok == r.panic = "" /\ r.err = ""
     IN /\ ok => nsel < MaxSel
        /\ inventory' = r.inv
        /\ order_qty' = r.oq
        /\ pc' = IF r.panic # "" THEN "Panicked" ELSE "Selecting"
        /\ reserved' = IF ok
                       THEN [reserved EXCEPT ![item_id_sel] = @ + qty]
                       ELSE reserved
        /\ nsel' = IF ok THEN nsel + 1 ELSE nsel
        /\ last' = Said("qty", item_id_sel, 0,
                        IF r.panic # "" THEN r.panic ELSE r.err)
  /\ UNCHANGED <<orders, next_item_id, next_order_id>>
  /\ UNCHANGED <<item_id_sel, lines, pre_inventory, overflow_checks, issued,
                 committed>>

\* the quantities the items hold when a session starts
PreQtys == {1, 2^(WordBits - 1), U32Max}
Rows == 0..Cardinality(ItemIds)

\* build_order is entered on a stocked store
InitBuild ==
  /\ inventory \in Inventories(ItemIds, {1}, {1}, PreQtys)
  /\ pre_inventory = inventory
  /\ orders = <<>>
  /\ next_item_id = 1
  /\ next_order_id = 1
  /\ pc = "Selecting"
  /\ overflow_checks \in BOOLEAN
  /\ NoSession

NextBuild ==
  \/ build_order_io_error
  \/ build_order_finish_rejected
  \/ build_order_finish
  \/ build_order_finish_unsorted
  \/ build_order_quit
  \/ build_order_not_a_row
  \/ \E row \in Rows : build_order_row(row)
  \/ build_order_qty_retry
  \/ \E qty \in U32 : build_order_qty(qty)

SpecBuild == InitBuild /\ [][NextBuild]_vars

\* ------------------------------------------------ Store::stock / stock_new
\* inventory.insert(item.id, (item, quantity)): last write wins
Stock(inv, id, cost, weight, quantity) ==
  [k \in DOMAIN inv \cup {id} |->
     IF k = id THEN Entry(cost, weight, quantity) ELSE inv[k]]

\* A faulty variant: next_item_id is not advanced.
StockNew_NoIncrement(inv, next_id, cost, weight, quantity) ==
  [inv |-> Stock(inv, next_id, cost, weight, quantity),
   id |-> next_id,
   next_id |-> next_id]

\* stock_new (create_stock in main.rs): the item gets id next_item_id, is
\* stocked, and the counter advances.  The counter is a u32 whose `+= 1`
\* overflows after 2^32 - 1 calls; the behaviours explored here make at most
\* MaxNew calls.
StockNew(inv, next_id, cost, weight, quantity) ==
  [inv |-> Stock(inv, next_id, cost, weight, quantity),
   id |-> next_id,
   next_id |-> next_id + 1]

stock(id, cost, weight, quantity) ==
  /\ pc = "Store"
  /\ inventory' = Stock(inventory, id, cost, weight, quantity)
  /\ last' = Call("stock", id, quantity, 0, "", 0, NoOrder)
  /\ UNCHANGED <<orders, next_item_id, next_order_id, pc, overflow_checks,
                 issued, committed>>
  /\ UNCHANGED session_vars

stock_new(cost, weight, quantity) ==
  /\ pc = "Store"
  /\ Len(issued) < MaxNew
  /\ LET r == StockNew(inventory, next_item_id, cost, weight, quantity)
     IN /\ inventory' = r.inv
        /\ next_item_id' = r.next_id
        /\ issued' = Append(issued, r.id)
        /\ last' = Call("stock_new", r.id, quantity,
                        Cardinality(DOMAIN inventory), "", r.id, NoOrder)
  /\ UNCHANGED <<orders, next_order_id, pc, overflow_checks, committed>>
  /\ UNCHANGED session_vars

\* ------------------------------------------- Store::commit_order / push_order
\* A faulty variant: a line whose item is not in the inventory is skipped
\* (`if let Some(..)` in place of `.expect(..)`).
RECURSIVE Aggregate_SkipsUnknown(_, _, _, _, _, _)
Aggregate_SkipsUnknown(inv, ls, k, cost, grams, checks) ==
  IF k > Len(ls)
  THEN [panic |-> "", cost |-> cost, grams |-> grams]
  ELSE IF ls[k].item_id \notin DOMAIN inv
  THEN Aggregate_SkipsUnknown(inv, ls, k + 1, cost, grams, checks)
  ELSE LET c == cost + inv[ls[k].item_id].cost * ls[k].qty
           g == grams + inv[ls[k].item_id].weight * ls[k].qty
       IN IF checks /\ (c >= U64Mod \/ g >= U64Mod)
          THEN [panic |-> "attempt to add with overflow",
                cost |-> cost, grams |-> grams]
          ELSE Aggregate_SkipsUnknown(inv, ls, k + 1, c % U64Mod, g % U64Mod,
                                      checks)

\* The loop of commit_order from line k on, with the u64 accumulators cost
\* and grams.  u64::from(u32) * u64::from(u32) is below 2^64 and cannot
\* overflow; the two `+=` can, and then panic or wrap as the build decides.
RECURSIVE Aggregate(_, _, _, _, _, _)
Aggregate(inv, ls, k, cost, grams, checks) ==
  IF k > Len(ls)
  THEN [panic |-> "", cost |-> cost, grams |-> grams]
  ELSE IF ls[k].item_id \notin DOMAIN inv
  THEN [panic |-> "Line item not found", cost |-> cost, grams |-> grams]
  ELSE LET c == cost + inv[ls[k].item_id].cost * ls[k].qty
           g == grams + inv[ls[k].item_id].weight * ls[k].qty
       IN IF checks /\ (c >= U64Mod \/ g >= U64Mod)
          THEN [panic |-> "attempt to add with overflow",
                cost |-> cost, grams |-> grams]
          ELSE Aggregate(inv, ls, k + 1, c % U64Mod, g % U64Mod, checks)

\* A faulty variant: the order id counter is advanced on entry, so a call
\* that panics has consumed an id.
CommitOrder_CountsFirst(inv, next_id, ls, checks) ==
  LET a == Aggregate(inv, ls, 1, 0, 0, checks)
  IN IF a.panic # "" \/ a.cost > U32Max \/ a.grams > U32Max
     THEN [panic |-> IF a.panic # "" THEN a.panic ELSE "order too large",
           order |-> NoOrder, next_id |-> next_id + 1]
     ELSE [panic |-> "",
           order |-> [id |-> next_id + 1, cost |-> a.cost,
                      ship_weight |-> a.grams, items |-> ls],
           next_id |-> next_id + 1]

\* commit_order: the panic that stopped it ("" if none), the Order returned
\* and the order id counter afterwards.  try_into() fails on an aggregate
\* above u32::MAX.  The order id counter is a u32 as well; at most MaxOrders
\* orders are committed here.
CommitOrder(inv, next_id, ls, checks) ==
  LET a == Aggregate(inv, ls, 1, 0, 0, checks)
  IN IF a.panic # ""
     THEN [panic |-> a.panic, order |-> NoOrder, next_id |-> next_id]
     ELSE IF a.cost > U32Max
     THEN [panic |-> "order cost too large", order |-> NoOrder,
           next_id |-> next_id]
     ELSE IF a.grams > U32Max
     THEN [panic |-> "order weight too large", order |-> NoOrder,
           next_id |-> next_id]
     ELSE [panic |-> "",
           order |-> [id |-> next_id, cost |-> a.cost,
                      ship_weight |-> a.grams, items |-> ls],
           next_id |-> next_id + 1]

\* A faulty variant: commit_order records the Order in the history itself.
commit_order_pushes(ls) ==
  /\ pc = "Store"
  /\ next_order_id <= MaxOrders
  /\ LET r == CommitOrder(inventory, next_order_id, ls, overflow_checks)
     IN /\ next_order_id' = r.next_id
        /\ pc' = IF r.panic # "" THEN "Panicked" ELSE pc
        /\ orders' = IF r.panic = "" THEN Append(orders, r.order) ELSE orders
        /\ committed' = IF r.panic = "" THEN Append(committed, r.order.id)
                         ELSE committed
        /\ last' = Call("commit_order", 0, ls, 0, r.panic, 0, r.order)
  /\ UNCHANGED <<inventory, next_item_id, overflow_checks, issued>>
  /\ UNCHANGED session_vars

commit_order(ls) ==
  /\ pc = "Store"
  /\ next_order_id <= MaxOrders
  /\ LET r == CommitOrder(inventory, next_order_id, ls, overflow_checks)
     IN /\ next_order_id' = r.next_id
        /\ pc' = IF r.panic # "" THEN "Panicked" ELSE pc
        /\ committed' = IF r.panic = "" THEN Append(committed, r.order.id)
                         ELSE committed
        /\ last' = Call("commit_order", 0, ls, 0, r.panic, 0, r.order)
  /\ UNCHANGED <<inventory, orders, next_item_id, overflow_checks, issued>>
  /\ UNCHANGED session_vars

\* print_receipt (ui.rs; inlined in main.rs): one line total per OrderLine,
\* Cents::new(item.cost.as_u32() * l.qty), a u32 product that panics or
\* wraps on overflow as the build decides.  panic: what stopped it ("" if
\* nothing did); totals: the line totals printed, those before a panic.
RECURSIVE PrintReceipt(_, _, _, _, _)
PrintReceipt(inv, items, k, totals, checks) ==
  IF k > Len(items)
  THEN [panic |-> "", totals |-> totals]
  ELSE IF items[k].item_id \notin DOMAIN inv
  THEN [panic |-> "Item is missing from inventory", totals |-> totals]
  ELSE LET line_total == inv[items[k].item_id].cost * items[k].qty
       IN IF checks /\ line_total > U32Max
          THEN [panic |-> "attempt to multiply with overflow",
                totals |-> totals]
          ELSE PrintReceipt(inv, items, k + 1,
                            Append(totals, AsU32(line_total)), checks)

\* the receipt of the Order commit_order has just returned
print_receipt ==
  /\ pc = "Store"
  /\ last.op = "commit_order"
  /\ last.err = ""
  /\ LET r == PrintReceipt(inventory, last.order.items, 1, <<>>,
                           overflow_checks)
     IN /\ pc' = IF r.panic # "" THEN "Panicked" ELSE pc
        /\ last' = Call("print_receipt", 0, r.totals, 0, r.panic, 0,
                        last.order)
  /\ UNCHANGED store_vars
  /\ UNCHANGED session_vars
  /\ UNCHANGED <<overflow_checks, issued, committed>>

\* push_order with the Order commit_order has just returned, before or
\* after its receipt was printed
push_order ==
  /\ pc = "Store"
  /\ last.op \in {"commit_order", "print_receipt"}
  /\ last.err = ""
  /\ orders' = Append(orders, last.order)
  /\ last' = Call("push_order", 0, 0, 0, "", 0, last.order)
  /\ UNCHANGED <<inventory, next_item_id, next_order_id, pc, overflow_checks,
                 issued, committed>>
  /\ UNCHANGED session_vars

\* the line lists of at most n lines over the given item ids and quantities
RECURSIVE LineLists(_, _, _)
LineLists(Ids, Qtys, n) ==
  IF n = 0 THEN {<<>>}
  ELSE LET shorter == LineLists(Ids, Qtys, n - 1)
       IN shorter \cup
          {Append(ls, [item_id |-> i, qty |-> q]) :
             ls \in shorter, i \in Ids, q \in Qtys}

\* the sums commit_order is to compute, over the integers
RECURSIVE TrueCost(_, _)
TrueCost(inv, ls) ==
  IF ls = <<>> THEN 0
  ELSE inv[Head(ls).item_id].cost * Head(ls).qty + TrueCost(inv, Tail(ls))

RECURSIVE TrueWeight(_, _)
TrueWeight(inv, ls) ==
  IF ls = <<>> THEN 0
  ELSE inv[Head(ls).item_id].weight * Head(ls).qty + TrueWeight(inv, Tail(ls))

AllStocked(inv, ls) == \A k \in DOMAIN ls : ls[k].item_id \in DOMAIN inv

\* A stocked store that has committed some orders already is handed one
\* line list.
CommitCosts == {2^(WordBits - 1), U32Max}
CommitWeights == {0, 1}
CommitQtys == {1, 4, U32Max}

InitCommit ==
  /\ inventory \in Inventories(ItemIds, CommitCosts, CommitWeights, {1})
  /\ pre_inventory = <<>>
  /\ orders = <<>>
  /\ next_item_id = 1
  /\ next_order_id \in 1..MaxOrders
  /\ pc = "Store"
  /\ overflow_checks \in BOOLEAN
  /\ NoSession

NextCommit ==
  \/ \E ls \in LineLists(ItemIds \cup OtherIds, CommitQtys, MaxLines) :
       last = NoCall /\ commit_order(ls)
  \/ print_receipt
  \/ push_order

SpecCommit == InitCommit /\ [][NextCommit]_vars

\* A fresh store (Store::new) driven through its operations in any order.
InitStore ==
  /\ inventory = <<>>
  /\ pre_inventory = <<>>
  /\ orders = <<>>
  /\ next_item_id = 1
  /\ next_order_id = 1
  /\ pc = "Store"
  /\ overflow_checks \in BOOLEAN
  /\ NoSession

NextStore ==
  \/ \E id \in ItemIds : stock(id, 1, 1, 1)
  \/ stock_new(1, 1, 1)
  \/ \E id \in ItemIds \cup OtherIds, qty_change \in {-1, I32Min} :
       adjust_stock(id, qty_change)
  \/ \E ls \in LineLists({1} \cup OtherIds, {1}, 1) : commit_order(ls)
  \/ push_order

SpecStore == InitStore /\ [][NextStore]_vars

\* C1: in every reachable state every on-hand quantity is a u32 (never
\* negative), and an adjust_stock call whose current_qty + delta is below 0
\* returns "Not enough stock" and leaves the whole inventory as it was.
C1_NeverNegative ==
  /\ [](\A i \in DOMAIN inventory : inventory[i].qty \in U32)
  /\ [][(/\ last'.op = "adjust_stock"
         /\ last'.id \in DOMAIN inventory
         /\ inventory[last'.id].qty + last'.arg < 0)
        => (last'.err = "Not enough stock" /\ inventory' = inventory)]_vars

\* a call that would have driven the quantity negative has been made
C1_Witness ==
  /\ last.op = "adjust_stock"
  /\ last.id \in DOMAIN inventory
  /\ last.before + last.arg < 0
  /\ last.err = "Not enough stock"

\* C3: whenever adjust_stock succeeds, the stored quantity and the returned
\* value both equal the mathematical sum current_qty + delta.
C3_StoresExactSum ==
  (last.op = "adjust_stock" /\ last.err = "")
    => /\ last.val = last.before + last.arg
       /\ inventory[last.id].qty = last.before + last.arg

\* C2: reserve-then-cancel round trip: once build_order has returned through
\* "q", every item's on-hand quantity equals its quantity before the session.
C2_RoundTrip ==
  pc = "Cancelled"
    => \A i \in DOMAIN pre_inventory :
         inventory[i].qty = pre_inventory[i].qty

\* C6: the line set returned on finish has at most one line per item id, in
\* strictly ascending item id order, and each line's qty is the sum of the
\* quantities successfully reserved for that item in the session.
C6_OneSortedSummedLinePerItem ==
  pc = "Finalized"
    => /\ \A j, k \in DOMAIN lines :
            j < k => lines[j].item_id < lines[k].item_id
       /\ \A k \in DOMAIN lines : lines[k].qty = reserved[lines[k].item_id]

\* C7: every OrderLine of a line set returned by build_order has qty > 0.
C7_LineQtyPositive ==
  pc = "Finalized" => \A k \in DOMAIN lines : lines[k].qty > 0

\* C8: "f" with an empty reservation map is rejected: the builder stays in
\* Selecting and inventory and map are unchanged; the builder reaches
\* Finalized, with a non-empty line set, only from a non-empty map.
C8_FinishOnEmptyRejected ==
  /\ [][(pc = "Selecting" /\ last'.op = "f" /\ DOMAIN order_qty = {})
        => /\ pc' = "Selecting"
           /\ last'.err = "Unable to complete order"
           /\ inventory' = inventory
           /\ order_qty' = order_qty]_vars
  /\ [][(pc # "Finalized" /\ pc' = "Finalized")
        => (DOMAIN order_qty # {} /\ lines' # <<>>)]_vars

\* "f" has been typed on an empty map and the session is still open
C8_Witness ==
  /\ pc = "Selecting"
  /\ last.op = "f"
  /\ last.err = "Unable to complete order"
  /\ DOMAIN order_qty = {}

\* the diagnostics of the errors build_order recovers from
RecoverableErrors ==
  {"Enter a row number", "Row out of range", "Not enough stock", "Unknown id"}

\* C9: every reported recoverable error (non-numeric command, row out of
\* range, adjust_stock failure) leaves inventory and reservation map as they
\* were and returns the builder to Selecting.
C9_ErrorsHaveNoEffect ==
  [][(last'.err \in RecoverableErrors)
     => /\ inventory' = inventory
        /\ order_qty' = order_qty
        /\ pc' = "Selecting"]_vars

\* adjust_stock has refused a typed quantity after an earlier selection
\* had succeeded
C9_Witness ==
  /\ last.op = "qty"
  /\ last.err = "Not enough stock"
  /\ nsel > 0
  /\ pc = "Selecting"

\* C4: when every line's item is stocked and commit_order returns an Order,
\* Order.cost is the sum over the lines of unit_cost * qty, Order.ship_weight
\* the sum of unit_weight * qty, and Order.items the input line list.
C4_OrderTotalsAreSums ==
  (last.op = "commit_order" /\ last.err = "" /\ AllStocked(inventory, last.arg))
    => /\ last.order.cost = TrueCost(inventory, last.arg)
       /\ last.order.ship_weight = TrueWeight(inventory, last.arg)
       /\ last.order.items = last.arg

\* C5: on stocked lines commit_order fails fatally exactly when the true
\* aggregate cost or the true aggregate weight exceeds the u32 storage
\* width; an Order it returns never carries a wrapped total.
C5_FailsExactlyOnTrueOverflow ==
  (last.op = "commit_order" /\ AllStocked(inventory, last.arg))
    => (last.err # ""
          <=> (\/ TrueCost(inventory, last.arg) > U32Max
               \/ TrueWeight(inventory, last.arg) > U32Max))

\* C10: on a fresh store the k-th stock_new returns id k, whatever other
\* store operations come in between.
C10_StockNewIdsSequential ==
  \A k \in DOMAIN issued : issued[k] = k

\* stock_new has returned a second id after stock, adjust_stock,
\* commit_order and push_order have all been used
C10_Witness ==
  /\ last.op = "stock_new"
  /\ Len(issued) >= 2
  /\ Len(orders) >= 1
  /\ \E i \in DOMAIN inventory : inventory[i].qty = 0

\* C11: stock_new never replaces an inventory entry that already exists:
\* under any interleaving of stock and stock_new, every stock_new leaves the
\* inventory with exactly one entry more than it had (last.before is the
\* number of entries when the call was made).
C11_StockNewAddsOneEntry ==
  last.op = "stock_new" => Cardinality(DOMAIN inventory) = last.before + 1

\* C12: the k-th successful commit_order returns the Order with id k, so the
\* ids are strictly increasing and never shared, and the counter always
\* stands one past the number of Orders returned: a commit_order that aborts
\* has consumed no id.
C12_OrderIdsSequential ==
  /\ \A k \in DOMAIN committed : committed[k] = k
  /\ next_order_id = Len(committed) + 1

\* a second Order has been returned, and pushed after an earlier one
C12_Witness ==
  /\ last.op = "push_order"
  /\ Len(committed) >= 2
  /\ Len(orders) >= 2

\* C13: adjust_stock on an item id that is not in the inventory returns
\* "Unknown id" and changes nothing: no entry appears, no quantity, id
\* counter or order history changes.
C13_UnknownItemNoEffect ==
  [][(last'.op = "adjust_stock" /\ last'.id \notin DOMAIN inventory)
     => /\ last'.err = "Unknown id"
        /\ inventory' = inventory
        /\ orders' = orders
        /\ next_item_id' = next_item_id
        /\ next_order_id' = next_order_id]_vars

\* adjust_stock has been refused for an unknown id on a store that holds
\* items and orders
C13_Witness ==
  /\ last.op = "adjust_stock"
  /\ last.err = "Unknown id"
  /\ last.id \notin DOMAIN inventory
  /\ DOMAIN inventory # {}
  /\ orders # <<>>

\* C14: commit_order leaves inventory, item id counter and order history as
\* they were; the order history changes only in push_order, which appends
\* exactly the Order it is given to the end.
C14_CommitFrame ==
  /\ [][(last'.op = "commit_order")
        => /\ inventory' = inventory
           /\ next_item_id' = next_item_id
           /\ orders' = orders]_vars
  /\ [][(orders' # orders)
        => /\ last'.op = "push_order"
           /\ orders' = Append(orders, last.order)]_vars

\* an Order has been committed on a store that already holds an order, and
\* pushed behind it
C14_Witness ==
  /\ last.op = "push_order"
  /\ Len(orders) >= 2
  /\ orders[Len(orders)] = last.order
  /\ DOMAIN inventory # {}

\* C15: every line of a line set returned by build_order names an item that
\* is in the inventory when build_order returns, so commit_order on that
\* line set does not abort with "Line item not found".
C15_ReturnedLinesAreStocked ==
  pc = "Finalized"
    => /\ AllStocked(inventory, lines)
       /\ CommitOrder(inventory, next_order_id, lines, overflow_checks).panic
            # "Line item not found"

\* build_order has returned a line set with a line for each of two items
C15_Witness ==
  /\ pc = "Finalized"
  /\ Len(lines) = 2

\* build_order has returned to its caller: Ok(Some(lines)), Ok(None) or Err
BuilderReturned == pc \in {"Finalized", "Cancelled", "IoError"}

\* C16, as claimed: whenever the builder has returned, the outcome is one of
\* exactly two, Finalized with a non-empty line set or Cancelled with none.
C16_ExactlyTwoOutcomes ==
  BuilderReturned
    => \/ (pc = "Finalized" /\ lines # <<>>)
       \/ (pc = "Cancelled" /\ lines = <<>>)

\* C16, amended: the builder returns with one of three outcomes, Finalized
\* (a non-empty line set), Cancelled or a propagated prompt IO failure (no
\* line set in either); once it has returned nothing changes the outcome or
\* the inventory; "q" at the command prompt always ends it in Cancelled and
\* "f" on a non-empty reservation map always ends it in Finalized.
C16_ThreeOutcomesReturnOnce ==
  /\ [](pc = "Finalized" => lines # <<>>)
  /\ [](pc \in {"Cancelled", "IoError"} => lines = <<>>)
  /\ [][BuilderReturned => (pc' = pc /\ inventory' = inventory)]_vars
  /\ [][(pc = "Selecting" /\ last'.op = "q") => pc' = "Cancelled"]_vars
  /\ [][(pc = "Selecting" /\ last'.op = "f" /\ DOMAIN order_qty # {})
        => pc' = "Finalized"]_vars

\* the builder has returned through the third outcome, an IO failure at a
\* prompt, after a selection had succeeded
C16_Witness ==
  /\ pc = "IoError"
  /\ last.op = "io"
  /\ nsel > 0

\* the quantity the session's reservation map holds for an item
ReservedQty(oq, i) == IF i \in DOMAIN oq THEN oq[i] ELSE 0

\* C18: conservation: in every state of build_order, for every item,
\* on-hand quantity + the quantity in the reservation map equals the
\* pre-session on-hand quantity.
C18_Conservation ==
  pc \in {"Selecting", "Qty", "Finalized"}
    => \A i \in DOMAIN pre_inventory :
         inventory[i].qty + ReservedQty(order_qty, i) = pre_inventory[i].qty

\* C19: whenever build_order returns without a line set, through "q" or
\* through an IO failure at a prompt, the inventory equals the pre-session
\* inventory.
C19_NoOrderMeansRestored ==
  pc \in {"Cancelled", "IoError"} => inventory = pre_inventory

\* C17: commit_order on a line set that names an item missing from the
\* inventory aborts: it returns no Order and leaves the order id counter,
\* the inventory and the order history as they were.
C17_UnknownLineAborts ==
  [][(last'.op = "commit_order" /\ ~AllStocked(inventory, last'.arg))
     => /\ pc' = "Panicked"
        /\ last'.err # ""
        /\ last'.order = NoOrder
        /\ next_order_id' = next_order_id
        /\ inventory' = inventory
        /\ orders' = orders]_vars

\* commit_order has aborted on a missing item that came after a stocked
\* line, on a store whose order id counter had already advanced
C17_Witness ==
  /\ pc = "Panicked"
  /\ last.op = "commit_order"
  /\ last.err = "Line item not found"
  /\ Len(last.arg) = 2
  /\ last.arg[1].item_id \in DOMAIN inventory
  /\ next_order_id > 1

RECURSIVE SumSeq(_)
SumSeq(s) == IF s = <<>> THEN 0 ELSE Head(s) + SumSeq(Tail(s))

\* C20: for an Order printed right after its commit, no line total
\* unit_cost * qty overflows the 32-bit product: the receipt is printed in
\* full, each line total is the true product, and the line totals sum to
\* Order.cost.
C20_ReceiptLinesSumToCost ==
  last.op = "print_receipt"
    => /\ last.err = ""
       /\ Len(last.arg) = Len(last.order.items)
       /\ \A k \in DOMAIN last.arg :
            last.arg[k] = inventory[last.order.items[k].item_id].cost
                            * last.order.items[k].qty
       /\ SumSeq(last.arg) = last.order.cost

====
